---- MODULE Spec2Model ----
(***************************************************************************)
(* A model of the document-ingestion / conversational-RAG backend:         *)
(* the chat endpoint (app/routers/chat.py), the RAG service                *)
(* (app/services/rag_service.py), the conversation memory                  *)
(* (app/utils/redis_memory.py), the in-memory vector index                 *)
(* (app/utils/mock_services.py) and the chunkers (app/utils/chunking.py).  *)
(*                                                                         *)
(* Python strings are modelled as sequences of one-character strings, so   *)
(* that strip(), split(), startswith(), slicing and the JSON encoding of   *)
(* the stored messages are computed, not assumed.                          *)
(***************************************************************************)
EXTENDS Integers, Sequences, FiniteSets, TLC

VARIABLES
    data,       \* InMemoryStore.data: Redis key -> list of JSON-encoded messages
    vectors,    \* MockQdrantManager.vectors: insertion-ordered dict document_id -> passages
    turn,       \* POST /api/chat requests: per request slot, the handler's position and locals
    resp,       \* the response of the request answered by the last step, when one was
    ck,         \* one FixedSizeChunking.chunk_text call: its configuration, locals and position
    sem,        \* one SemanticChunking.chunk_text call: its configuration, locals and position
    documents,  \* the documents table: the metadata rows, in creation order
    ing,        \* one DocumentIngestionService.ingest_document call: position and locals
    ix          \* the last direct call on the vector index: its arguments and its outcome

vars == <<data, vectors, turn, resp, ck, sem, documents, ing, ix>>

(***************************************************************************)
(* Bounds of the model.                                                    *)
(***************************************************************************)
MaxTurns == 2          \* chat requests per behaviour
MaxPassages == 2       \* passages held by the vector index
MaxLen == 4            \* length of a text handed to the chunker
MaxSize == 3           \* largest chunk_size a caller passes
MaxLimit == 5          \* largest max_messages a history read is checked with

(***************************************************************************)
(* Program constants.                                                      *)
(***************************************************************************)
TOP_K_RETRIEVAL == 5
MAX_CONTEXT_LENGTH == 2000
DEFAULT_CHUNK_SIZE == 500
DEFAULT_CHUNK_OVERLAP == 50
HistoryLimit == 10              \* max_messages=10 in CustomRAGService.chat
ResponseCut == 1000             \* full_context[:1000] in _generate_response
None == 0                       \* a None / omitted integer argument: falsy, like 0
NoDocument == "None"            \* document_id=None in search_similar

(***************************************************************************)
(* Python string and list primitives.                                      *)
(***************************************************************************)
Min(a, b) == IF a < b THEN a ELSE b
Max(a, b) == IF a > b THEN a ELSE b

\* str.isspace() for one character
IsSpace(c) == c \in {" ", "\n", "\t", "\r"}

\* s[start:end] with Python's clamping and negative indices (0-based, end exclusive)
PySlice(s, start, end) ==
    LET n == Len(s)
        lo == IF start < 0 THEN Max(n + start, 0) ELSE Min(start, n)
        hi == IF end < 0 THEN Max(n + end, 0) ELSE Min(end, n)
    IN  IF lo >= hi THEN <<>> ELSE SubSeq(s, lo + 1, hi)

\* s[start:]
PyFrom(s, start) == PySlice(s, start, Len(s))

\* the concatenation of F(lo), ..., F(hi), by halves (the depth of the evaluation
\* stays logarithmic in the length of the text)
RECURSIVE Flat(_, _, _)
Flat(F(_), lo, hi) ==
    IF lo > hi THEN <<>>
    ELSE IF lo = hi THEN F(lo)
    ELSE Flat(F, lo, (lo + hi) \div 2) \o Flat(F, ((lo + hi) \div 2) + 1, hi)

\* the least (greatest) index in lo..hi at which P holds, or 0
RECURSIVE FirstIn(_, _, _)
FirstIn(P(_), lo, hi) ==
    IF lo > hi THEN 0
    ELSE IF lo = hi THEN (IF P(lo) THEN lo ELSE 0)
    ELSE LET l == FirstIn(P, lo, (lo + hi) \div 2)
         IN  IF l # 0 THEN l ELSE FirstIn(P, ((lo + hi) \div 2) + 1, hi)

RECURSIVE LastIn(_, _, _)
LastIn(P(_), lo, hi) ==
    IF lo > hi THEN 0
    ELSE IF lo = hi THEN (IF P(lo) THEN lo ELSE 0)
    ELSE LET r == LastIn(P, ((lo + hi) \div 2) + 1, hi)
         IN  IF r # 0 THEN r ELSE LastIn(P, lo, (lo + hi) \div 2)

\* str.strip(): from the first to the last character that is not whitespace
Strip(s) ==
    LET NotSpace(i) == ~IsSpace(s[i])
        first == FirstIn(NotSpace, 1, Len(s))
    IN  IF first = 0 THEN <<>> ELSE SubSeq(s, first, LastIn(NotSpace, 1, Len(s)))

\* str.startswith(prefix)
StartsWith(s, prefix) ==
    Len(s) >= Len(prefix) /\ SubSeq(s, 1, Len(prefix)) = prefix

\* the pieces of s[lo..hi] between occurrences of sep
RECURSIVE SplitRange(_, _, _, _)
SplitRange(s, sep, lo, hi) ==
    IF lo > hi THEN << <<>> >>
    ELSE IF lo = hi THEN (IF s[lo] = sep THEN << <<>>, <<>> >> ELSE << <<s[lo]>> >>)
    ELSE LET L == SplitRange(s, sep, lo, (lo + hi) \div 2)
             R == SplitRange(s, sep, ((lo + hi) \div 2) + 1, hi)
         IN  SubSeq(L, 1, Len(L) - 1) \o << L[Len(L)] \o R[1] >> \o Tail(R)

\* str.split(sep) for a one-character separator: always at least one piece
Split(s, sep) == SplitRange(s, sep, 1, Len(s))

\* sep.join(parts)
RECURSIVE Join(_, _)
Join(parts, sep) ==
    IF parts = <<>> THEN <<>>
    ELSE IF Len(parts) = 1 THEN parts[1]
    ELSE parts[1] \o sep \o Join(Tail(parts), sep)

\* str(n) for a non-negative integer
Digits == <<"0", "1", "2", "3", "4", "5", "6", "7", "8", "9">>
RECURSIVE IntToStr(_)
IntToStr(n) ==
    IF n < 10 THEN <<Digits[n + 1]>> ELSE Append(IntToStr(n \div 10), Digits[(n % 10) + 1])

\* str.capitalize(): first character upper-cased, the rest lower-cased
LowerAlphabet ==
    <<"a","b","c","d","e","f","g","h","i","j","k","l","m",
      "n","o","p","q","r","s","t","u","v","w","x","y","z">>
UpperAlphabet ==
    <<"A","B","C","D","E","F","G","H","I","J","K","L","M",
      "N","O","P","Q","R","S","T","U","V","W","X","Y","Z">>
Upper(c) ==
    IF \E i \in 1..26 : LowerAlphabet[i] = c
    THEN UpperAlphabet[CHOOSE i \in 1..26 : LowerAlphabet[i] = c] ELSE c
Lower(c) ==
    IF \E i \in 1..26 : UpperAlphabet[i] = c
    THEN LowerAlphabet[CHOOSE i \in 1..26 : UpperAlphabet[i] = c] ELSE c
Capitalize(s) ==
    IF s = <<>> THEN s
    ELSE <<Upper(s[1])>> \o [i \in 1..(Len(s) - 1) |-> Lower(s[i + 1])]

(***************************************************************************)
(* String literals of the program.                                         *)
(***************************************************************************)
PromptIntro ==
    <<"Y","o","u"," ","a","r","e"," ","a"," ","h","e","l","p","f","u","l"," ","A","I"," ","a",
      "s","s","i","s","t","a","n","t","."," ","U","s","e"," ","t","h","e"," ","f","o","l","l",
      "o","w","i","n","g"," ","c","o","n","t","e","x","t"," ","a","n","d"," ","c","o","n","v",
      "e","r","s","a","t","i","o","n"," ","h","i","s","t","o","r","y"," ","t","o"," ","a","n",
      "s","w","e","r"," ","t","h","e"," ","u","s","e","r","'","s"," ","q","u","e","s","t","i",
      "o","n",".","\n","\n","C","o","n","t","e","x","t"," ","f","r","o","m"," ","d","o","c","u",
      "m","e","n","t","s",":","\n">>

PromptHistoryHeader ==
    <<"\n","\n","C","o","n","v","e","r","s","a","t","i","o","n"," ","H","i","s","t","o","r","y",
      ":","\n">>

PromptQuestionHeader ==
    <<"\n","\n","C","u","r","r","e","n","t"," ","Q","u","e","s","t","i","o","n",":"," ">>

PromptInstructions ==
    <<"\n","\n","I","n","s","t","r","u","c","t","i","o","n","s",":","\n","-"," ","A","n","s",
      "w","e","r"," ","b","a","s","e","d"," ","o","n"," ","t","h","e"," ","p","r","o","v","i",
      "d","e","d"," ","c","o","n","t","e","x","t","\n","-"," ","I","f"," ","t","h","e"," ","c",
      "o","n","t","e","x","t"," ","d","o","e","s","n","'","t"," ","c","o","n","t","a","i","n",
      " ","r","e","l","e","v","a","n","t"," ","i","n","f","o","r","m","a","t","i","o","n",",",
      " ","s","a","y"," ","s","o","\n","-"," ","B","e"," ","c","o","n","v","e","r","s","a","t",
      "i","o","n","a","l"," ","a","n","d"," ","h","e","l","p","f","u","l","\n","-"," ","R","e",
      "f","e","r","e","n","c","e"," ","t","h","e"," ","c","o","n","t","e","x","t"," ","w","h",
      "e","n"," ","a","p","p","l","i","c","a","b","l","e","\n","-"," ","K","e","e","p"," ","t",
      "r","a","c","k"," ","o","f"," ","t","h","e"," ","c","o","n","v","e","r","s","a","t","i",
      "o","n"," ","f","l","o","w","\n","\n","A","n","s","w","e","r",":">>

ContextTag ==
    <<"[","C","o","n","t","e","x","t">>

ContextLabel ==
    <<"[","C","o","n","t","e","x","t"," ">>

ContextLabelEnd ==
    <<"]",":"," ">>

QuestionTag ==
    <<"C","u","r","r","e","n","t"," ","Q","u","e","s","t","i","o","n",":">>

FoundPrefix ==
    <<"B","a","s","e","d"," ","o","n"," ","t","h","e"," ","d","o","c","u","m","e","n","t","s",
      ","," ","h","e","r","e","'","s"," ","w","h","a","t"," ","I"," ","f","o","u","n","d",":",
      "\n","\n">>

MoreSuffix ==
    <<".",".",".","\n","\n","(","T","h","e","r","e","'","s"," ","m","o","r","e"," ","i","n","f",
      "o","r","m","a","t","i","o","n"," ","a","v","a","i","l","a","b","l","e"," ","i","n"," ",
      "t","h","e"," ","d","o","c","u","m","e","n","t","s",")">>

NoInfoResponse ==
    <<"I"," ","c","o","u","l","d","n","'","t"," ","f","i","n","d"," ","r","e","l","e","v","a",
      "n","t"," ","i","n","f","o","r","m","a","t","i","o","n"," ","i","n"," ","t","h","e"," ",
      "u","p","l","o","a","d","e","d"," ","d","o","c","u","m","e","n","t","s"," ","t","o"," ",
      "a","n","s","w","e","r"," ","y","o","u","r"," ","q","u","e","s","t","i","o","n","."," ",
      "P","l","e","a","s","e"," ","m","a","k","e"," ","s","u","r","e"," ","y","o","u","'","v",
      "e"," ","u","p","l","o","a","d","e","d"," ","d","o","c","u","m","e","n","t","s"," ","r",
      "e","l","a","t","e","d"," ","t","o"," ","y","o","u","r"," ","q","u","e","r","y",","," ",
      "o","r"," ","t","r","y"," ","r","e","p","h","r","a","s","i","n","g"," ","y","o","u","r",
      " ","q","u","e","s","t","i","o","n",".">>

Ellipsis ==
    <<".",".",".">>

KeyPrefix ==
    <<"c","h","a","t","_","s","e","s","s","i","o","n",":">>

RoleUser ==
    <<"u","s","e","r">>

RoleAssistant ==
    <<"a","s","s","i","s","t","a","n","t">>

JsonRoleKey ==
    <<"r","o","l","e">>

JsonContentKey ==
    <<"c","o","n","t","e","n","t">>

(***************************************************************************)
(* json.dumps / json.loads of a message dict {"role": ..., "content": ...} *)
(* (redis_memory.py stores every message as a JSON string).                *)
(***************************************************************************)
JsonEscape(c) ==
    CASE c = "\"" -> <<"\\", "\"">>
      [] c = "\\" -> <<"\\", "\\">>
      [] c = "\n" -> <<"\\", "n">>
      [] c = "\t" -> <<"\\", "t">>
      [] c = "\r" -> <<"\\", "r">>
      [] OTHER -> <<c>>

JsonUnescape(c) ==
    CASE c = "n" -> "\n"
      [] c = "t" -> "\t"
      [] c = "r" -> "\r"
      [] OTHER -> c

JsonString(s) ==
    LET Escaped(i) == JsonEscape(s[i])
    IN  <<"\"">> \o Flat(Escaped, 1, Len(s)) \o <<"\"">>

\* json.dumps(message)
JsonDumps(message) ==
    <<"{">> \o JsonString(JsonRoleKey) \o <<":", " ">> \o JsonString(message.role)
        \o <<",", " ">> \o JsonString(JsonContentKey) \o <<":", " ">>
        \o JsonString(message.content) \o <<"}">>

\* whether text[i] follows an escaping backslash
RECURSIVE JsonEscaped(_, _)
JsonEscaped(text, i) == i > 1 /\ text[i - 1] = "\\" /\ ~JsonEscaped(text, i - 1)

\* the JSON string whose first character (after the opening quote) is text[i]:
\* its value and the index after its closing quote
JsonParseString(text, i) ==
    LET Closes(j) == text[j] = "\"" /\ ~JsonEscaped(text, j)
        close == FirstIn(Closes, i, Len(text))
        Decoded(j) == IF JsonEscaped(text, j) THEN <<JsonUnescape(text[j])>>
                      ELSE IF text[j] = "\\" THEN <<>>
                      ELSE <<text[j]>>
    IN  [val |-> Flat(Decoded, i, close - 1), next |-> close + 1]

\* json.loads(text) of an object with two string members, then the dict's two entries
JsonLoads(text) ==
    LET k1 == JsonParseString(text, 3)
        v1 == JsonParseString(text, k1.next + 3)
        k2 == JsonParseString(text, v1.next + 3)
        v2 == JsonParseString(text, k2.next + 3)
        get(key) == IF k2.val = key THEN v2.val ELSE IF k1.val = key THEN v1.val ELSE <<>>
    IN  [role |-> get(JsonRoleKey), content |-> get(JsonContentKey)]

(***************************************************************************)
(* InMemoryStore (redis_memory.py): a dict from key to list.  A key is     *)
(* present exactly when it is in DOMAIN data.                              *)
(***************************************************************************)
\* self.data.get(key, [])
StoreGet(d, key) == IF key \in DOMAIN d THEN d[key] ELSE <<>>

lpush_mutant(d, key, value) ==
    IF key \in DOMAIN d THEN [d EXCEPT ![key] = <<value>> \o @] ELSE d @@ (key :> <<value>>)

rpush(d, key, value) ==
    IF key \in DOMAIN d THEN [d EXCEPT ![key] = Append(@, value)] ELSE d @@ (key :> <<value>>)

lrange_no_tail_case(d, key, start, end) == PySlice(StoreGet(d, key), start, end + 1)

lrange(d, key, start, end) ==
    IF end = -1 THEN PyFrom(StoreGet(d, key), start)
    ELSE PySlice(StoreGet(d, key), start, end + 1)

delete_keeps_key(d, key) == IF key \in DOMAIN d THEN [d EXCEPT ![key] = <<>>] ELSE d

\* the dict after InMemoryStore.delete(key)
delete(d, key) == [k \in (DOMAIN d) \ {key} |-> d[k]]

delete_count_always_one(d, key) == 1

\* the value InMemoryStore.delete(key) returns
delete_count(d, key) == IF key \in DOMAIN d THEN 1 ELSE 0

exists(d, key) == IF key \in DOMAIN d THEN 1 ELSE 0

llen(d, key) == Len(StoreGet(d, key))

(***************************************************************************)
(* RedisMemoryManager (redis_memory.py) over the in-memory store.          *)
(***************************************************************************)
_get_session_key_shared(session_id) == KeyPrefix

_get_session_key(session_id) == KeyPrefix \o session_id

add_message_skips_user(d, session_id, role, content) ==
    IF role = RoleUser THEN d
    ELSE rpush(d, _get_session_key(session_id), JsonDumps([role |-> role, content |-> content]))

\* the store after add_message (expire is a no-op on the in-memory store)
add_message(d, session_id, role, content) ==
    rpush(d, _get_session_key(session_id), JsonDumps([role |-> role, content |-> content]))

get_conversation_history(d, session_id, max_messages) ==
    LET key == _get_session_key(session_id)
        messages == IF max_messages # None
                    THEN lrange(d, key, -max_messages, -1)
                    ELSE lrange(d, key, 0, -1)
    IN  [i \in 1..Len(messages) |-> JsonLoads(messages[i])]

\* the store after clear_session, and the boolean it returns
clear_session_data(d, session_id) == delete(d, _get_session_key(session_id))
clear_session(d, session_id) == delete_count(d, _get_session_key(session_id)) > 0

session_exists(d, session_id) == exists(d, _get_session_key(session_id)) > 0

get_message_count(d, session_id) == llen(d, _get_session_key(session_id))

(***************************************************************************)
(* MockRedisMemory (mock_services.py): the same operations over a dict of  *)
(* message lists, without the JSON encoding.                               *)
(***************************************************************************)
\* MockRedisMemory.get_conversation_history over the session's list `history`
\* (the empty list when the session is absent)
mock_get_conversation_history(history, max_messages) ==
    IF max_messages # None THEN PyFrom(history, -max_messages) ELSE history

(***************************************************************************)
(* MockQdrantManager (mock_services.py), the index the services use        *)
(* (qdrant_manager.py binds qdrant_manager to it).  The dict `vectors` is  *)
(* insertion-ordered: a sequence of entries [document_id, chunks].         *)
(***************************************************************************)
\* embedding_manager.embed_text: an opaque deterministic function of the text
embed_text(text) == [vector_of |-> text]

embed_batch(texts) == [i \in 1..Len(texts) |-> embed_text(texts[i])]

HasDocument(v, document_id) == \E i \in 1..Len(v) : v[i].document_id = document_id

PassageCount(v) ==
    LET RECURSIVE Sum(_)
        Sum(i) == IF i = 0 THEN 0 ELSE Len(v[i].chunks) + Sum(i - 1)
    IN  Sum(Len(v))

\* the index after store_vectors(document_id, chunks, embeddings)
store_vectors(v, document_id, chunks, embeddings) ==
    LET n == Min(Len(chunks), Len(embeddings))      \* zip stops at the shorter list
        new == [i \in 1..n |-> [chunk_index |-> i - 1,
                                text |-> chunks[i],
                                embedding |-> embeddings[i]]]
        v0 == IF HasDocument(v, document_id) THEN v
              ELSE Append(v, [document_id |-> document_id, chunks |-> <<>>])
    IN  [i \in 1..Len(v0) |->
            IF v0[i].document_id = document_id
            THEN [v0[i] EXCEPT !.chunks = @ \o new]
            ELSE v0[i]]

\* the count store_vectors returns
store_vectors_count(chunks, embeddings) == Len(chunks)

\* an embedding that is not a list: a number other than 0
NotAVector == [scalar |-> 7]

\* embedding[:5] can be evaluated
Sliceable(embedding) == "vector_of" \in DOMAIN embedding

\* the position in zip(chunks, embeddings) at which `embedding[:5] if embedding
\* else []` raises TypeError, or 0
FirstUnsliceable(chunks, embeddings) ==
    LET Bad(i) == ~Sliceable(embeddings[i])
    IN  FirstIn(Bad, 1, Min(Len(chunks), Len(embeddings)))

store_vectors_raises(chunks, embeddings) == FirstUnsliceable(chunks, embeddings) # 0

\* the index after a call of store_vectors, also when the loop is left by an
\* exception: the passages appended before it stay
store_vectors_outcome(v, document_id, chunks, embeddings) ==
    LET bad == FirstUnsliceable(chunks, embeddings)
    IN  IF bad = 0 THEN store_vectors(v, document_id, chunks, embeddings)
        ELSE store_vectors(v, document_id, SubSeq(chunks, 1, bad - 1),
                           SubSeq(embeddings, 1, bad - 1))

\* self.vectors.get(document_id, [])
PassagesOf(v, document_id) ==
    IF HasDocument(v, document_id)
    THEN v[CHOOSE i \in 1..Len(v) : v[i].document_id = document_id].chunks
    ELSE <<>>

RECURSIVE SearchFrom(_, _, _, _)
SearchFrom(v, i, top_k, document_id) ==
    IF i > Len(v) THEN <<>>
    ELSE IF document_id # NoDocument /\ v[i].document_id # document_id
         THEN SearchFrom(v, i + 1, top_k, document_id)
    ELSE LET shown == PySlice(v[i].chunks, 0, top_k)
         IN  [j \in 1..Len(shown) |-> [text |-> shown[j].text,
                                       document_id |-> v[i].document_id,
                                       chunk_index |-> shown[j].chunk_index,
                                       score |-> 85]]       \* 0.85, in hundredths
             \o SearchFrom(v, i + 1, top_k, document_id)

search_similar(v, query_embedding, top_k, document_id) ==
    PySlice(SearchFrom(v, 1, top_k, document_id), 0, top_k)

\* the index after delete_by_document_id, and the boolean it returns
delete_by_document_id_vectors(v, document_id) ==
    SelectSeq(v, LAMBDA e : e.document_id # document_id)
delete_by_document_id(v, document_id) == HasDocument(v, document_id)

(***************************************************************************)
(* CustomRAGService (rag_service.py).                                      *)
(***************************************************************************)
_retrieve_context(v, query) ==
    search_similar(v, embed_text(query), TOP_K_RETRIEVAL, NoDocument)

_build_prompt(user_message, relevant_chunks, conversation_history) ==
    LET context_parts == [idx \in 1..Len(relevant_chunks) |->
                            ContextLabel \o IntToStr(idx) \o ContextLabelEnd
                                \o relevant_chunks[idx].text]
        joined == Join(context_parts, <<"\n", "\n">>)
        context_str == IF Len(joined) > MAX_CONTEXT_LENGTH
                       THEN PySlice(joined, 0, MAX_CONTEXT_LENGTH) \o Ellipsis
                       ELSE joined
        earlier == PySlice(conversation_history, 0, -1)
        history_parts == [i \in 1..Len(earlier) |->
                            Capitalize(earlier[i].role) \o <<":", " ">> \o earlier[i].content]
        history_str == IF Len(conversation_history) > 1
                       THEN Join(history_parts, <<"\n">>) ELSE <<>>
    IN  PromptIntro \o context_str \o PromptHistoryHeader \o history_str
            \o PromptQuestionHeader \o user_message \o PromptInstructions

\* the loop of _generate_response over the prompt's lines: the flag context_start
\* and the list context_parts (the local `question` is assigned and never read)
RECURSIVE ScanLines(_, _, _)
ScanLines(lines, context_start, context_parts) ==
    IF lines = <<>> THEN context_parts
    ELSE IF StartsWith(Head(lines), ContextTag)
         THEN ScanLines(Tail(lines), TRUE, context_parts)
    ELSE IF StartsWith(Head(lines), QuestionTag)
         THEN ScanLines(Tail(lines), FALSE, context_parts)
    ELSE IF context_start /\ Strip(Head(lines)) # <<>>
         THEN ScanLines(Tail(lines), context_start, Append(context_parts, Strip(Head(lines))))
    ELSE ScanLines(Tail(lines), context_start, context_parts)

_generate_response(prompt) ==
    LET context_parts == ScanLines(Split(prompt, "\n"), FALSE, <<>>)
        full_context == Join(context_parts, <<" ">>)
    IN  IF context_parts # <<>>
        THEN FoundPrefix \o PySlice(full_context, 0, ResponseCut)
                \o (IF Len(full_context) > ResponseCut THEN MoreSuffix ELSE <<>>)
        ELSE NoInfoResponse

\* [chunk["document_id"] for chunk in relevant_chunks], as a set
SourceSet(relevant_chunks) ==
    {relevant_chunks[i].document_id : i \in 1..Len(relevant_chunks)}

\* list(set(...)): every element once, in the iteration order of a Python set of
\* strings, which depends on the process's hash seed: any order can come out
SourceLists(relevant_chunks) ==
    LET S == SourceSet(relevant_chunks)
    IN  {q \in [1..Cardinality(S) -> S] : \A i, j \in 1..Cardinality(S) : i # j => q[i] # q[j]}

get_session_history(d, session_id) == get_conversation_history(d, session_id, None)

(***************************************************************************)
(* FixedSizeChunking (chunking.py).                                        *)
(***************************************************************************)
\* `x or default` for an integer argument that may be None (0 stands for None,
\* and a caller's 0 is replaced just the same)
OrDefault(x, default) == IF x # None THEN x ELSE default

\* re.sub(r'\s+', ' ', text).strip()
_clean_text(text) ==
    LET Collapsed(i) == IF ~IsSpace(text[i]) THEN <<text[i]>>
                        ELSE IF i > 1 /\ IsSpace(text[i - 1]) THEN <<>>
                        ELSE <<" ">>
    IN  Strip(Flat(Collapsed, 1, Len(text)))

ChunkWindow_one_past_end(text, start, chunk_size) ==
    PySlice(text, start, start + chunk_size + 1)

\* end = start + self.chunk_size; chunk = text[start:end]
ChunkWindow(text, start, chunk_size) == PySlice(text, start, start + chunk_size)

(***************************************************************************)
(* SemanticChunking (chunking.py).                                         *)
(***************************************************************************)
\* the last index of the run of whitespace that starts at index i
RunEnd(text, i) ==
    LET NotSpace(k) == ~IsSpace(text[k])
        stop == FirstIn(NotSpace, i, Len(text))
    IN  IF stop = 0 THEN Len(text) ELSE stop - 1

\* re.split(r'\n\s*\n|\r\n\s*\r\n', text) from index i on, lo being the start of
\* the piece in progress: a newline, whitespace, and the last newline of that run
RECURSIVE ParagraphPieces(_, _, _)
ParagraphPieces(text, lo, i) ==
    IF i > Len(text) THEN << SubSeq(text, lo, Len(text)) >>
    ELSE LET IsNewline(k) == text[k] = "\n"
             last == IF text[i] = "\n" THEN LastIn(IsNewline, i + 1, RunEnd(text, i)) ELSE 0
         IN  IF last # 0
             THEN << SubSeq(text, lo, i - 1) >> \o ParagraphPieces(text, last + 1, last + 1)
             ELSE ParagraphPieces(text, lo, i + 1)

\* [p.strip() for p in pieces if p.strip()]
StrippedNonEmpty(pieces) ==
    SelectSeq([k \in 1..Len(pieces) |-> Strip(pieces[k])], LAMBDA p : p # <<>>)

_split_paragraphs(text) == StrippedNonEmpty(ParagraphPieces(text, 1, 1))

SentenceEnd == {".", "!", "?"}

IsCapital(c) == \E k \in 1..Len(UpperAlphabet) : UpperAlphabet[k] = c

\* re.split(r'(?<=[.!?])\s+(?=[A-Z])', text) from index i on: a run of whitespace
\* with . ! or ? before it and a capital letter after it
RECURSIVE SentencePieces(_, _, _)
SentencePieces(text, lo, i) ==
    IF i > Len(text) THEN << SubSeq(text, lo, Len(text)) >>
    ELSE LET end == RunEnd(text, i)
             cut == /\ IsSpace(text[i])
                    /\ i > 1
                    /\ text[i - 1] \in SentenceEnd
                    /\ end < Len(text)
                    /\ IsCapital(text[end + 1])
         IN  IF cut
             THEN << SubSeq(text, lo, i - 1) >> \o SentencePieces(text, end + 1, end + 1)
             ELSE SentencePieces(text, lo, i + 1)

_split_sentences(text) == StrippedNonEmpty(SentencePieces(text, 1, 1))

\* the sentences of all paragraphs, in the order the two nested loops visit them
RECURSIVE AllSentences(_)
AllSentences(paragraphs) ==
    IF paragraphs = <<>> THEN <<>>
    ELSE _split_sentences(Head(paragraphs)) \o AllSentences(Tail(paragraphs))

\* current_chunk + " " + sentence if current_chunk else sentence
PotentialChunk(current_chunk, sentence) ==
    IF current_chunk # <<>> THEN current_chunk \o <<" ">> \o sentence ELSE sentence

SemanticStep_flushes_short_buffer(s) ==
    LET sentence == Head(s.sentences)
        potential_chunk == PotentialChunk(s.current_chunk, sentence)
        rest == [s EXCEPT !.sentences = Tail(@)]
    IN  IF Len(potential_chunk) > s.max_chunk_size
        THEN [rest EXCEPT !.chunks = Append(@, Strip(s.current_chunk)),
                          !.current_chunk = sentence]
        ELSE IF Len(potential_chunk) >= s.target_chunk_size
        THEN [rest EXCEPT !.chunks = Append(@, Strip(potential_chunk)),
                          !.current_chunk = <<>>]
        ELSE [rest EXCEPT !.current_chunk = potential_chunk]

\* the body of the inner loop for the next sentence
SemanticStep(s) ==
    LET sentence == Head(s.sentences)
        potential_chunk == PotentialChunk(s.current_chunk, sentence)
        rest == [s EXCEPT !.sentences = Tail(@)]
    IN  IF Len(potential_chunk) > s.max_chunk_size
        THEN IF Len(s.current_chunk) >= s.min_chunk_size
             THEN [rest EXCEPT !.chunks = Append(@, Strip(s.current_chunk)),
                               !.current_chunk = sentence]
             ELSE [rest EXCEPT !.chunks = Append(@, Strip(potential_chunk)),
                               !.forced = @ \cup {Len(s.chunks) + 1},
                               !.current_chunk = <<>>]
        ELSE IF Len(potential_chunk) >= s.target_chunk_size
        THEN [rest EXCEPT !.chunks = Append(@, Strip(potential_chunk)),
                          !.current_chunk = <<>>]
        ELSE [rest EXCEPT !.current_chunk = potential_chunk]

(***************************************************************************)
(* The HTTP boundary of the chat endpoints (routers/chat.py).              *)
(***************************************************************************)
\* not s or not s.strip()
Blank(s) == s = <<>> \/ Strip(s) = <<>>

RequestInvalid_session_only(session_id, user_message) == Blank(session_id)

\* the two validation tests at the top of chat()
RequestInvalid(session_id, user_message) == Blank(session_id) \/ Blank(user_message)

\* issubclass(cls, base) among the exception classes that occur
IsSubclass(cls, base) == cls = base \/ base = "Exception"

\* the except clauses of chat(): the status answered when an exception of class
\* cls is raised inside the try block (HTTPException is an Exception too)
ChatExceptStatus(cls) ==
    IF IsSubclass(cls, "ValueError") THEN 400
    ELSE IF IsSubclass(cls, "Exception") THEN 500
    ELSE 0

(***************************************************************************)
(* DocumentRepository (document_repository.py), DocumentParser             *)
(* (document_parser.py) and the ingest endpoint (routers/ingest.py).       *)
(***************************************************************************)
\* str(uuid.uuid4()) of the n-th row created: an id never handed out before
Uuids == <<"d1", "d2", "d3", "d4">>

HasRow(rows, document_id) == \E i \in 1..Len(rows) : rows[i].document_id = document_id

\* the table after create_document
create_document(rows, document_id, filename, total_chunks) ==
    Append(rows, [document_id |-> document_id, filename |-> filename,
                  total_chunks |-> total_chunks])

delete_document_rows_keeps_row(rows, document_id) == rows

\* the table after delete_document, and the boolean it returns
delete_document_rows(rows, document_id) ==
    SelectSeq(rows, LAMBDA r : r.document_id # document_id)
delete_document(rows, document_id) == HasRow(rows, document_id)

\* parse_txt, and parse_pdf when the reader succeeds: the text, stripped
parse_file(content) == Strip(content)

\* factory: the strategy names it knows
get_chunking_strategy(strategy_name) ==
    IF strategy_name \in {"fixed_size", "semantic"} THEN strategy_name ELSE "ValueError"

\* the except clauses of the ingest endpoint
IngestExceptStatus(cls) ==
    IF IsSubclass(cls, "ValueError") THEN 400
    ELSE IF IsSubclass(cls, "Exception") THEN 500
    ELSE 0

(***************************************************************************)
(* Inputs.                                                                 *)
(***************************************************************************)
Turns == 1..MaxTurns

\* the request bodies sent to POST /api/chat: the chosen session ids and messages
\* (two sessions; a message with a quote, a backslash and a line that starts
\* like a context block), and each way of leaving one of the two fields blank
SessionIds == {<<"s">>, <<"t">>}

InjectedMessage == <<"\"", "\\", "\n">> \o ContextTag

ValidRequests ==
    {[session_id |-> <<"s">>, user_message |-> <<"h", "i">>],
     [session_id |-> <<"s">>, user_message |-> InjectedMessage],
     [session_id |-> <<"t">>, user_message |-> <<"h", "i">>]}

BlankRequests ==
    {[session_id |-> <<>>, user_message |-> <<"h", "i">>],
     [session_id |-> <<" ">>, user_message |-> <<"h", "i">>],
     [session_id |-> <<"s">>, user_message |-> <<>>],
     [session_id |-> <<"s">>, user_message |-> <<" ", "\n">>]}

ChatRequests == ValidRequests \cup BlankRequests

DocIds == {"d1", "d2"}

ChunkLists == {<< <<"a", "b">> >>}

\* the classes of the exceptions a collaborator (embedder, index, generator) raises
CollaboratorErrors == {"RuntimeError"}

IdleTurn ==
    [pc |-> "idle", session_id |-> <<>>, user_message |-> <<>>,
     relevant_chunks |-> <<>>, conversation_history |-> <<>>,
     response |-> <<>>, sources |-> <<>>, status |-> 0, error |-> "none"]

NoResponse == [kind |-> "none", session_id |-> <<>>, user_message |-> <<>>, status |-> 0,
               body |-> "none"]

IdleChunker ==
    [pc |-> "idle", input |-> <<>>, arg_size |-> None, arg_overlap |-> None,
     chunk_size |-> 0, chunk_overlap |-> 0, text |-> <<>>, start |-> 0, chunks |-> <<>>,
     starts |-> <<>>]

IdleSemantic ==
    [pc |-> "idle", input |-> <<>>, arg_size |-> None,
     target_chunk_size |-> 0, min_chunk_size |-> 0, max_chunk_size |-> 0,
     text |-> <<>>, sentences |-> <<>>, current_chunk |-> <<>>, chunks |-> <<>>,
     forced |-> {}]

IdleIngest ==
    [pc |-> "idle", filename |-> "none", text |-> <<>>, strategy |-> "none",
     chunk_size |-> None, chunk_overlap |-> None, chunks |-> <<>>, embeddings |-> <<>>,
     document_id |-> NoDocument, error |-> "none", status |-> 0, calls |-> 0, made |-> 0]

IdleIndex ==
    [op |-> "none", document_id |-> NoDocument, top_k |-> 0, raised |-> FALSE,
     count |-> 0, deleted |-> FALSE, hits |-> <<>>, stored |-> 0]

Init ==
    /\ data = <<>>
    /\ vectors = <<>>
    /\ turn = [t \in Turns |-> IdleTurn]
    /\ resp = NoResponse
    /\ ck = IdleChunker
    /\ sem = IdleSemantic
    /\ documents = <<>>
    /\ ing = IdleIngest
    /\ ix = IdleIndex

(***************************************************************************)
(* POST /api/chat: chat() of the router and CustomRAGService.chat.         *)
(***************************************************************************)
\* request slots are taken in order
CanStart(t) == turn[t].pc = "idle" /\ \A u \in 1..(t - 1) : turn[u].pc # "idle"

\* a blank session_id or user_message: HTTPException(400) is raised inside the
\* try block, whose `except Exception` clause answers it
ChatReject(session_id, user_message) ==
    /\ RequestInvalid(session_id, user_message)
    /\ resp' = [kind |-> "chat", session_id |-> session_id,
                user_message |-> user_message,
                status |-> ChatExceptStatus("HTTPException"), body |-> "error"]
    /\ UNCHANGED <<data, vectors, turn, ck, sem, documents, ing, ix>>

\* step 1 of CustomRAGService.chat: the user message is stored
ChatAccept(t, session_id, user_message) ==
    /\ CanStart(t)
    /\ ~RequestInvalid(session_id, user_message)
    /\ data' = add_message(data, session_id, RoleUser, user_message)
    /\ turn' = [turn EXCEPT ![t] =
                    [IdleTurn EXCEPT !.pc = "retrieve",
                                     !.session_id = session_id,
                                     !.user_message = user_message]]
    /\ resp' = NoResponse
    /\ UNCHANGED <<vectors, ck, sem, documents, ing, ix>>

\* step 2: _retrieve_context
ChatRetrieve(t) ==
    /\ turn[t].pc = "retrieve"
    /\ turn' = [turn EXCEPT ![t].pc = "generate",
                            ![t].relevant_chunks =
                                _retrieve_context(vectors, turn[t].user_message)]
    /\ resp' = NoResponse
    /\ UNCHANGED <<data, vectors, ck, sem, documents, ing, ix>>

\* an exception raised at a collaborator call leaves CustomRAGService.chat (it has
\* no handler) and is answered by the router's except clauses
ChatFail(t, at, what, cls) ==
    /\ turn[t].pc = at
    /\ turn' = [turn EXCEPT ![t].pc = "done",
                            ![t].relevant_chunks = <<>>,
                            ![t].conversation_history = <<>>,
                            ![t].error = what,
                            ![t].status = ChatExceptStatus(cls)]
    /\ resp' = NoResponse
    /\ UNCHANGED <<data, vectors, ck, sem, documents, ing, ix>>

ChatRetrieveFails(t, what, cls) ==
    /\ what \in {"embed_text", "search_similar"}
    /\ ChatFail(t, "retrieve", what, cls)

\* steps 3 to 5: the last 10 messages, _build_prompt and _generate_response
ChatGenerate(t) ==
    /\ turn[t].pc = "generate"
    /\ LET history == get_conversation_history(data, turn[t].session_id, HistoryLimit)
       IN  turn' = [turn EXCEPT ![t].pc = "record",
                                ![t].conversation_history = history,
                                ![t].response =
                                    _generate_response(
                                        _build_prompt(turn[t].user_message,
                                                      turn[t].relevant_chunks,
                                                      history))]
    /\ resp' = NoResponse
    /\ UNCHANGED <<data, vectors, ck, sem, documents, ing, ix>>

ChatGenerateFails(t, cls) == ChatFail(t, "generate", "generate", cls)

\* steps 6 and 7, and the ChatResponse of the router; the locals of the call
\* end with it
ChatRecord(t) ==
    /\ turn[t].pc = "record"
    /\ data' = add_message(data, turn[t].session_id, RoleAssistant, turn[t].response)
    /\ \E sources \in SourceLists(turn[t].relevant_chunks) :
            turn' = [turn EXCEPT ![t].pc = "done",
                                 ![t].relevant_chunks = <<>>,
                                 ![t].conversation_history = <<>>,
                                 ![t].sources = sources,
                                 ![t].status = 200]
    /\ resp' = NoResponse
    /\ UNCHANGED <<vectors, ck, sem, documents, ing, ix>>

(***************************************************************************)
(* DELETE /api/chat/{session_id}: clear_session() of the router.           *)
(***************************************************************************)
ClearSession(session_id) ==
    /\ resp' = [kind |-> "delete", session_id |-> session_id, user_message |-> <<>>,
                status |-> 200,
                body |-> IF clear_session(data, session_id) THEN "success" ELSE "info"]
    /\ data' = clear_session_data(data, session_id)
    /\ UNCHANGED <<vectors, turn, ck, sem, documents, ing, ix>>

(***************************************************************************)
(* The vector index as ingestion drives it.                                 *)
(***************************************************************************)
StoreVectors(document_id, chunks) ==
    /\ PassageCount(vectors) + Len(chunks) <= MaxPassages
    /\ vectors' = store_vectors(vectors, document_id, chunks, embed_batch(chunks))
    /\ resp' = NoResponse
    /\ UNCHANGED <<data, turn, ck, sem, documents, ing, ix>>

(***************************************************************************)
(* One call FixedSizeChunking(chunk_size, chunk_overlap).chunk_text(text). *)
(***************************************************************************)
TextChars == {"a", " ", "\n"}

Texts == UNION {[1..n -> TextChars] : n \in 0..MaxLen}

\* __init__ and the top of chunk_text: the empty text returns at once
FixedCall_empty_text_is_a_chunk(text, chunk_size, chunk_overlap) ==
    [IdleChunker EXCEPT
        !.pc = IF text = <<>> THEN "returned" ELSE "loop",
        !.input = text,
        !.arg_size = chunk_size,
        !.arg_overlap = chunk_overlap,
        !.chunk_size = OrDefault(chunk_size, DEFAULT_CHUNK_SIZE),
        !.chunk_overlap = OrDefault(chunk_overlap, DEFAULT_CHUNK_OVERLAP),
        !.text = IF text = <<>> THEN <<>> ELSE _clean_text(text),
        !.chunks = IF text = <<>> THEN << text >> ELSE <<>>]

\* the chunker as chunk_text enters its loop, or returns at once
FixedCall(text, chunk_size, chunk_overlap) ==
    [IdleChunker EXCEPT
        !.pc = IF text = <<>> THEN "returned" ELSE "loop",
        !.input = text,
        !.arg_size = chunk_size,
        !.arg_overlap = chunk_overlap,
        !.chunk_size = OrDefault(chunk_size, DEFAULT_CHUNK_SIZE),
        !.chunk_overlap = OrDefault(chunk_overlap, DEFAULT_CHUNK_OVERLAP),
        !.text = IF text = <<>> THEN <<>> ELSE _clean_text(text)]

ChunkCall(text, chunk_size, chunk_overlap) ==
    /\ ck.pc = "idle"
    /\ ck' = FixedCall(text, chunk_size, chunk_overlap)
    /\ UNCHANGED <<data, vectors, turn, resp, sem, documents, ing, ix>>

\* one iteration of the while loop, with its break; starts keeps the value of
\* start at each append
ChunkLoop ==
    /\ ck.pc = "loop"
    /\ ck.start < Len(ck.text)
    /\ LET chunk == ChunkWindow(ck.text, ck.start, ck.chunk_size)
       IN  ck' = [ck EXCEPT
                    !.chunks = IF Strip(chunk) # <<>> THEN Append(@, Strip(chunk)) ELSE @,
                    !.starts = IF Strip(chunk) # <<>> THEN Append(@, ck.start) ELSE @,
                    !.start = @ + ck.chunk_size - ck.chunk_overlap,
                    !.pc = IF ck.chunk_size <= ck.chunk_overlap THEN "returned" ELSE "loop"]
    /\ UNCHANGED <<data, vectors, turn, resp, sem, documents, ing, ix>>

\* the loop condition fails: return chunks
ChunkReturn ==
    /\ ck.pc = "loop"
    /\ ~(ck.start < Len(ck.text))
    /\ ck' = [ck EXCEPT !.pc = "returned"]
    /\ UNCHANGED <<data, vectors, turn, resp, sem, documents, ing, ix>>

(***************************************************************************)
(* One call SemanticChunking(target_chunk_size).chunk_text(text).          *)
(***************************************************************************)
MaxSentences == 3      \* words joined into a text handed to the semantic chunker

SemWords == { <<"a">>, <<"A", "a", ".">>, <<"A", "a", "a", "a", ".">> }

RECURSIVE WordLists(_)
WordLists(n) ==
    IF n = 0 THEN { <<>> }
    ELSE WordLists(n - 1) \cup
         { Append(l, w) : l \in {x \in WordLists(n - 1) : Len(x) = n - 1}, w \in SemWords }

SemTexts ==
    { Join(l, <<" ">>) : l \in WordLists(MaxSentences) }
        \cup { <<" ">>, <<"A", "a", ".", "\n", " ", "\n", "A", "a", ".">> }

\* the target sizes of the calls: None, and sizes below and above the lengths of
\* the texts
SemSizes == 0..(2 * MaxSize + 2)

\* __init__ and the top of chunk_text, up to the two nested loops
SemanticCall(text, target_chunk_size) ==
    LET target == OrDefault(target_chunk_size, DEFAULT_CHUNK_SIZE)
        cleaned == _clean_text(text)
    IN  [IdleSemantic EXCEPT
            !.pc = IF text = <<>> THEN "returned" ELSE "loop",
            !.input = text,
            !.arg_size = target_chunk_size,
            !.target_chunk_size = target,
            !.min_chunk_size = target \div 2,
            !.max_chunk_size = target * 2,
            !.text = IF text = <<>> THEN <<>> ELSE cleaned,
            !.sentences = IF text = <<>> THEN <<>>
                          ELSE AllSentences(_split_paragraphs(cleaned))]

SemCall(text, target_chunk_size) ==
    /\ sem.pc = "idle"
    /\ sem' = SemanticCall(text, target_chunk_size)
    /\ UNCHANGED <<data, vectors, turn, resp, ck, documents, ing, ix>>

\* one sentence of the inner loop
SemLoop ==
    /\ sem.pc = "loop"
    /\ sem.sentences # <<>>
    /\ sem' = SemanticStep(sem)
    /\ UNCHANGED <<data, vectors, turn, resp, ck, documents, ing, ix>>

\* the loops are over: add the remaining chunk and return
SemanticFinish(s) ==
    [s EXCEPT !.pc = "returned",
              !.chunks = IF Strip(s.current_chunk) # <<>>
                         THEN Append(@, Strip(s.current_chunk)) ELSE @]

SemReturn ==
    /\ sem.pc = "loop"
    /\ sem.sentences = <<>>
    /\ sem' = SemanticFinish(sem)
    /\ UNCHANGED <<data, vectors, turn, resp, ck, documents, ing, ix>>

(***************************************************************************)
(* POST /api/ingest: DocumentIngestionService.ingest_document, one call    *)
(* at a time.                                                              *)
(***************************************************************************)
MaxIngests == 2        \* ingestion requests per behaviour

IngestFiles == {"a.txt", "a.pdf"}

IngestTexts ==
    { <<" ">>,
      <<"a", "b", "c">>,
      <<"A", "a", ".", " ", "A", "a", ".">> }

IngestSizes == 0..2

\* the call ends with an exception of class cls, which the endpoint answers
IngestRaise(g, cls) ==
    [g EXCEPT !.pc = "raised", !.error = cls, !.status = IngestExceptStatus(cls)]

\* steps 1 and 2 up to the call of chunk_text
IngestCall(filename, content, strategy, chunk_size, chunk_overlap) ==
    /\ ing.pc \in {"idle", "returned", "raised"}
    /\ ing.calls < MaxIngests
    /\ ck.pc = "idle" /\ sem.pc = "idle"
    /\ LET text == parse_file(content)
           call == [IdleIngest EXCEPT !.filename = filename, !.text = text,
                                      !.strategy = strategy,
                                      !.chunk_size = chunk_size,
                                      !.chunk_overlap = chunk_overlap,
                                      !.calls = ing.calls + 1,
                                      !.made = ing.made]
           chunker == get_chunking_strategy(strategy)
       IN  IF text = <<>> \/ chunker = "ValueError"
           THEN /\ ing' = IngestRaise(call, "ValueError")
                /\ UNCHANGED <<ck, sem>>
           ELSE /\ ing' = [call EXCEPT !.pc = "chunk"]
                /\ ck' = IF chunker = "fixed_size"
                         THEN FixedCall(text, chunk_size, chunk_overlap) ELSE ck
                /\ sem' = IF chunker = "semantic"
                          THEN SemanticCall(text, OrDefault(chunk_size, DEFAULT_CHUNK_SIZE))
                          ELSE sem
    /\ UNCHANGED <<data, vectors, turn, resp, documents, ix>>

\* parse_pdf: the reader fails, and the parser wraps the failure in a ValueError
IngestParseFails(filename) ==
    /\ ing.pc \in {"idle", "returned", "raised"}
    /\ ing.calls < MaxIngests
    /\ filename = "a.pdf"
    /\ ing' = IngestRaise([IdleIngest EXCEPT !.filename = filename,
                                             !.calls = ing.calls + 1,
                                             !.made = ing.made], "ValueError")
    /\ UNCHANGED <<data, vectors, turn, resp, ck, sem, documents, ix>>

\* chunk_text has returned: `if not chunks`
IngestChunked ==
    /\ ing.pc = "chunk"
    /\ ck.pc = "returned" \/ sem.pc = "returned"
    /\ LET chunks == IF ck.pc = "returned" THEN ck.chunks ELSE sem.chunks
       IN  ing' = IF chunks = <<>> THEN IngestRaise(ing, "ValueError")
                  ELSE [ing EXCEPT !.pc = "embed", !.chunks = chunks]
    /\ ck' = IdleChunker
    /\ sem' = IdleSemantic
    /\ UNCHANGED <<data, vectors, turn, resp, documents, ix>>

\* step 3
IngestEmbed ==
    /\ ing.pc = "embed"
    /\ ing' = [ing EXCEPT !.pc = "create", !.embeddings = embed_batch(ing.chunks)]
    /\ UNCHANGED <<data, vectors, turn, resp, ck, sem, documents, ix>>

IngestEmbedFails(cls) ==
    /\ ing.pc = "embed"
    /\ ing' = IngestRaise(ing, cls)
    /\ UNCHANGED <<data, vectors, turn, resp, ck, sem, documents, ix>>

\* step 4: the metadata row, with a fresh document_id
IngestCreate ==
    /\ ing.pc = "create"
    /\ LET document_id == Uuids[ing.made + 1]
       IN  /\ documents' = create_document(documents, document_id, ing.filename,
                                           Len(ing.chunks))
           /\ ing' = [ing EXCEPT !.pc = "store", !.document_id = document_id,
                                 !.made = @ + 1]
    /\ UNCHANGED <<data, vectors, turn, resp, ck, sem, ix>>

\* step 5, store_vectors returns: the count is compared, a mismatch is raised
\* into the except clause, which deletes the row and raises ValueError
IngestStore ==
    /\ ing.pc = "store"
    /\ vectors' = store_vectors(vectors, ing.document_id, ing.chunks, ing.embeddings)
    /\ IF store_vectors_count(ing.chunks, ing.embeddings) # Len(ing.chunks)
       THEN /\ documents' = delete_document_rows(documents, ing.document_id)
            /\ ing' = IngestRaise(ing, "ValueError")
       ELSE /\ ing' = [ing EXCEPT !.pc = "returned", !.status = 200]
            /\ UNCHANGED documents
    /\ UNCHANGED <<data, turn, resp, ck, sem, ix>>

\* step 5, store_vectors raises: the except clause deletes the row and raises
\* ValueError whatever the class of the failure
IngestStoreFails(cls) ==
    /\ ing.pc = "store"
    /\ documents' = delete_document_rows(documents, ing.document_id)
    /\ ing' = IngestRaise(ing, "ValueError")
    /\ UNCHANGED <<data, vectors, turn, resp, ck, sem, ix>>

(***************************************************************************)
(* Direct calls on the vector index (mock_services.py): store_vectors,     *)
(* delete_by_document_id and search_similar, in any order.                 *)
(***************************************************************************)
MaxStored == 3         \* passages handed to store_vectors per behaviour

\* the texts of the next k chunks stored: each names its place in the order of
\* storing
FreshChunks(k) == [i \in 1..k |-> IntToStr(ix.stored + i)]

\* lists of embeddings for the chunks: one per chunk or one short, each a vector
\* or not
EmbeddingLists(chunks) ==
    UNION { [1..n -> {"vector", "scalar"}] : n \in {Len(chunks), Max(Len(chunks) - 1, 0)} }

Embeddings(chunks, kinds) ==
    [i \in 1..Len(kinds) |-> IF kinds[i] = "vector" THEN embed_text(chunks[i]) ELSE NotAVector]

IndexStore(document_id, k, kinds) ==
    /\ ix.stored + k <= MaxStored
    /\ LET chunks == FreshChunks(k)
           embeddings == Embeddings(chunks, kinds)
       IN  /\ vectors' = store_vectors_outcome(vectors, document_id, chunks, embeddings)
           /\ ix' = [IdleIndex EXCEPT
                        !.op = "store",
                        !.document_id = document_id,
                        !.raised = store_vectors_raises(chunks, embeddings),
                        !.count = IF store_vectors_raises(chunks, embeddings) THEN 0
                                  ELSE store_vectors_count(chunks, embeddings),
                        !.stored = ix.stored + k]
    /\ UNCHANGED <<data, turn, resp, ck, sem, documents, ing>>

IndexDelete(document_id) ==
    /\ vectors' = delete_by_document_id_vectors(vectors, document_id)
    /\ ix' = [IdleIndex EXCEPT
                !.op = "delete",
                !.document_id = document_id,
                !.deleted = delete_by_document_id(vectors, document_id),
                !.stored = ix.stored]
    /\ UNCHANGED <<data, turn, resp, ck, sem, documents, ing>>

IndexSearch(top_k, document_id) ==
    /\ ix' = [IdleIndex EXCEPT
                !.op = "search",
                !.document_id = document_id,
                !.top_k = top_k,
                !.hits = search_similar(vectors, embed_text(<<"q">>), top_k, document_id),
                !.stored = ix.stored]
    /\ UNCHANGED <<data, vectors, turn, resp, ck, sem, documents, ing>>

(***************************************************************************)
(* Specifications.                                                         *)
(***************************************************************************)
Next ==
    \/ \E t \in Turns, r \in ValidRequests : ChatAccept(t, r.session_id, r.user_message)
    \/ \E t \in Turns : ChatRetrieve(t)
    \/ \E t \in Turns, w \in {"embed_text", "search_similar"}, c \in CollaboratorErrors :
            ChatRetrieveFails(t, w, c)
    \/ \E t \in Turns : ChatGenerate(t)
    \/ \E t \in Turns, c \in CollaboratorErrors : ChatGenerateFails(t, c)
    \/ \E t \in Turns : ChatRecord(t)
    \/ \E s \in SessionIds : ClearSession(s)
    \/ \E c \in ChunkLists : StoreVectors("d1", c)

Spec == Init /\ [][Next]_vars

\* one request at a time, as the tests drive the API; no session is cleared
NoTurnInFlight == \A t \in Turns : turn[t].pc \in {"idle", "done"}

SeqNext ==
    \/ \E r \in ChatRequests : NoTurnInFlight /\ ChatReject(r.session_id, r.user_message)
    \/ \E t \in Turns, r \in ChatRequests :
            NoTurnInFlight /\ ChatAccept(t, r.session_id, r.user_message)
    \/ \E t \in Turns : ChatRetrieve(t)
    \/ \E t \in Turns, w \in {"embed_text", "search_similar"}, c \in CollaboratorErrors :
            ChatRetrieveFails(t, w, c)
    \/ \E t \in Turns : ChatGenerate(t)
    \/ \E t \in Turns, c \in CollaboratorErrors : ChatGenerateFails(t, c)
    \/ \E t \in Turns : ChatRecord(t)
    \/ \E d \in DocIds, c \in ChunkLists : NoTurnInFlight /\ StoreVectors(d, c)

SpecSeq == Init /\ [][SeqNext]_vars

ChunkNext ==
    \/ \E text \in Texts, size \in 0..MaxSize, overlap \in 0..MaxSize :
            ChunkCall(text, size, overlap)
    \/ ChunkLoop
    \/ ChunkReturn

SpecChunk == Init /\ [][ChunkNext]_vars

\* one call of either chunker
ChunkersNext ==
    \/ \E text \in Texts, size \in 0..MaxSize, overlap \in 0..MaxSize :
            sem.pc = "idle" /\ ChunkCall(text, size, overlap)
    \/ ChunkLoop
    \/ ChunkReturn
    \/ \E text \in SemTexts, size \in SemSizes : ck.pc = "idle" /\ SemCall(text, size)
    \/ SemLoop
    \/ SemReturn

SpecChunkers == Init /\ [][ChunkersNext]_vars

\* ingestion requests, one at a time
IngestNext ==
    \/ \E f \in IngestFiles, text \in IngestTexts, s \in {"fixed_size", "semantic"},
          size \in IngestSizes, overlap \in IngestSizes :
            IngestCall(f, text, s, size, overlap)
    \/ \E f \in IngestFiles : IngestParseFails(f)
    \/ ChunkLoop
    \/ ChunkReturn
    \/ SemLoop
    \/ SemReturn
    \/ IngestChunked
    \/ IngestEmbed
    \/ \E c \in CollaboratorErrors : IngestEmbedFails(c)
    \/ IngestCreate
    \/ IngestStore
    \/ \E c \in CollaboratorErrors : IngestStoreFails(c)

SpecIngest == Init /\ [][IngestNext]_vars

IndexNext ==
    \/ \E d \in DocIds, k \in 0..2 :
            \E kinds \in EmbeddingLists(FreshChunks(k)) : IndexStore(d, k, kinds)
    \/ \E d \in DocIds : IndexDelete(d)
    \/ \E top_k \in 1..MaxStored, d \in DocIds \cup {NoDocument} : IndexSearch(top_k, d)

SpecIndex == Init /\ [][IndexNext]_vars

(***************************************************************************)
(* Properties.                                                             *)
(***************************************************************************)
\* a text that is empty or holds whitespace only
AllSpace(s) == \A i \in 1..Len(s) : IsSpace(s[i])

UserEntry(content) == [role |-> RoleUser, content |-> content]
AssistantEntry(content) == [role |-> RoleAssistant, content |-> content]

\* C1: a POST /api/chat whose session_id or user_message is empty or made of
\* whitespace only is answered with status 400, never with 500.
C1_BlankRequestAnswered400 ==
    (resp.kind = "chat" /\ (AllSpace(resp.session_id) \/ AllSpace(resp.user_message)))
        => resp.status = 400

\* C2: the step that handles a chat request with a blank session_id or a blank
\* user_message leaves the conversation store as it was: nothing is appended and
\* no session is created.
HandlesBlankRequest ==
    \/ resp'.kind = "chat" /\ (AllSpace(resp'.session_id) \/ AllSpace(resp'.user_message))
    \/ \E t \in Turns :
        /\ turn[t].pc = "idle" /\ turn'[t].pc # "idle"
        /\ AllSpace(turn'[t].session_id) \/ AllSpace(turn'[t].user_message)

C2_BlankRequestLeavesStore == [][HandlesBlankRequest => data' = data]_vars

\* a chat request with a blank message on an existing session has been rejected
C2_Witness ==
    /\ resp.kind = "chat"
    /\ AllSpace(resp.user_message)
    /\ session_exists(data, resp.session_id)

\* the turns on session s, in the order in which they started
TurnsOn(s) == SelectSeq([t \in Turns |-> t], LAMBDA t : turn[t].session_id = s)

Failed(t) == turn[t].pc = "done" /\ turn[t].error # "none"
Succeeded(t) == turn[t].pc = "done" /\ turn[t].error = "none"

\* how many messages turn t has put into its session so far, when requests are
\* handled one at a time
Recorded(t) == IF turn[t].pc = "idle" THEN 0 ELSE IF Succeeded(t) THEN 2 ELSE 1

\* where, in its session's log, the user message of turn t stands then
UserPosition(t) ==
    LET earlier == SelectSeq(TurnsOn(turn[t].session_id), LAMBDA u : u < t)
        RECURSIVE Sum(_)
        Sum(i) == IF i = 0 THEN 0 ELSE Recorded(earlier[i]) + Sum(i - 1)
    IN  Sum(Len(earlier)) + 1

\* C3: the user message is in the session before retrieval starts; when the
\* embedder, the vector search or the generation fails, the turn ends with that
\* failure, no assistant message follows the user message of the turn, and the
\* user message stays in the session.
C3_FailedTurnKeepsUserMessage ==
    \A t \in Turns :
        LET h == get_session_history(data, turn[t].session_id)
            p == UserPosition(t)
        IN  /\ turn[t].pc = "retrieve" =>
                /\ Len(h) = p
                /\ h[p] = UserEntry(turn[t].user_message)
                /\ turn[t].relevant_chunks = <<>>
            /\ Failed(t) =>
                /\ Len(h) >= p
                /\ h[p] = UserEntry(turn[t].user_message)
                /\ Len(h) > p => h[p + 1].role = RoleUser
                /\ turn[t].response = <<>>
                /\ turn[t].status # 200

\* a turn failed at generation and a later turn on the same session succeeded
C3_Witness ==
    \E t, u \in Turns :
        /\ t < u
        /\ turn[t].session_id = turn[u].session_id
        /\ Failed(t) /\ turn[t].error = "generate"
        /\ Succeeded(u)

\* C4: after n successful chat turns handled one after the other on a fresh
\* session, get_session_history returns 2n messages: for the k-th turn its user
\* message and then its assistant reply, in turn order.
C4_HistoryOfSuccessfulTurns ==
    \A s \in SessionIds :
        LET on == TurnsOn(s)
            h == get_session_history(data, s)
        IN  (\A k \in 1..Len(on) : Succeeded(on[k])) =>
                /\ Len(h) = 2 * Len(on)
                /\ \A k \in 1..Len(on) :
                    /\ h[2 * k - 1] = UserEntry(turn[on[k]].user_message)
                    /\ h[2 * k] = AssistantEntry(turn[on[k]].response)

\* two successful turns on one session: four messages
C4_Witness ==
    \E s \in SessionIds :
        /\ Len(TurnsOn(s)) = 2
        /\ \A k \in 1..2 : Succeeded(TurnsOn(s)[k])
        /\ Len(get_session_history(data, s)) = 4

\* the distinct document ids of the hits, each at its first appearance
RECURSIVE FirstSeen(_, _)
FirstSeen(hits, seen) ==
    IF hits = <<>> THEN seen
    ELSE IF \E i \in 1..Len(seen) : seen[i] = Head(hits).document_id
         THEN FirstSeen(Tail(hits), seen)
    ELSE FirstSeen(Tail(hits), Append(seen, Head(hits).document_id))

\* C5: the sources a chat turn returns are the distinct document ids of its hits,
\* each once, in the order of their first appearance among the hits.
C5_SourcesInFirstSeenOrder ==
    [][\A t \in Turns :
            (turn[t].pc = "record" /\ turn'[t].pc = "done")
                => turn'[t].sources = FirstSeen(turn[t].relevant_chunks, <<>>)]_vars

\* C6: a turn whose retrieval returned no hit gets the no-relevant-information
\* response, whatever the user message, with no sources.
C6_NoHitsNoInformation ==
    \A t \in Turns :
        (turn[t].pc = "record" /\ turn[t].relevant_chunks = <<>>)
            => turn[t].response = NoInfoResponse

\* the stored messages of session s, decoded one by one
DecodedLog(s) ==
    LET items == StoreGet(data, _get_session_key(s))
    IN  [i \in 1..Len(items) |-> JsonLoads(items[i])]

\* the last k entries of a list, oldest first
LastEntries(log, k) == [i \in 1..k |-> log[Len(log) - k + i]]

\* C7: for every session and every positive limit N, get_conversation_history
\* returns the last min(N, count) messages of the session, oldest first, and all
\* of them when no limit is given; the mock store's history does the same.
C7_HistoryLimit ==
    \A s \in SessionIds :
        LET log == DecodedLog(s)
        IN  /\ get_conversation_history(data, s, None) = log
            /\ mock_get_conversation_history(log, None) = log
            /\ \A N \in (1..MaxLimit) \cup {HistoryLimit} :
                /\ get_conversation_history(data, s, N)
                        = LastEntries(log, Min(N, get_message_count(data, s)))
                /\ mock_get_conversation_history(log, N) = LastEntries(log, Min(N, Len(log)))

\* a session of four messages read with limit 3
C7_Witness ==
    \E s \in SessionIds :
        /\ get_message_count(data, s) = 4
        /\ Len(get_conversation_history(data, s, 3)) = 3

\* session s reads as absent: empty history, not existing, no messages
ReadsAsAbsent(s) ==
    /\ get_session_history(data, s) = <<>>
    /\ ~session_exists(data, s)
    /\ get_message_count(data, s) = 0

\* the step appends a message to session s: a turn on s stores its user message
\* or its assistant reply
AppendsTo(s) ==
    \E t \in Turns :
        /\ turn'[t].session_id = s
        /\ \/ turn[t].pc = "idle" /\ turn'[t].pc = "retrieve"
           \/ turn[t].pc = "record" /\ turn'[t].pc = "done"

\* C8: after clear_session(s), and until the next append to s, the history of s
\* is empty, session_exists(s) is false and get_message_count(s) is 0.
C8_ClearedUntilNextAppend ==
    [][\A s \in SessionIds :
            /\ (resp'.kind = "delete" /\ resp'.session_id = s) => ReadsAsAbsent(s)'
            /\ (ReadsAsAbsent(s) /\ ~AppendsTo(s)) => ReadsAsAbsent(s)']_vars

\* a session that held messages has just been cleared
C8_Witness ==
    /\ resp.kind = "delete"
    /\ resp.body = "success"
    /\ ReadsAsAbsent(resp.session_id)
    /\ \E t \in Turns : turn[t].session_id = resp.session_id /\ Succeeded(t)

\* C9: clear_session(s) returns true exactly when s existed, that is held at
\* least one message, when it was called; an unknown or already cleared session
\* gives false without an error, and DELETE /api/chat/{id} answers "success"
\* exactly in the true case.
C9_ClearReportsExistence ==
    [][resp'.kind = "delete" =>
            /\ resp'.status = 200
            /\ resp'.body \in {"success", "info"}
            /\ resp'.body = "success" <=> get_message_count(data, resp'.session_id) >= 1
            /\ resp'.body = "success" <=> session_exists(data, resp'.session_id)
            /\ resp'.body = "success" <=> clear_session(data, resp'.session_id)]_vars

\* a session that a finished turn had written was cleared before, and clearing it
\* again has answered "info"
C9_Witness ==
    /\ resp.kind = "delete"
    /\ resp.body = "info"
    /\ \E t \in Turns : turn[t].session_id = resp.session_id /\ turn[t].pc = "done"

\* the text has a character that is not whitespace
HasContent(text) == ~AllSpace(text)

\* the call was made with a positive chunk_size and an overlap below it
ValidFixedConfig == ck.arg_size >= 1 /\ ck.arg_overlap < ck.arg_size

\* C10 as stated: for every non-empty text, whitespace-only texts included, and
\* overlap < size, fixed-size chunking returns at least one chunk and no chunk
\* longer than size.
C10_NonEmptyTextGivesChunks ==
    (ck.pc = "returned" /\ ck.input # <<>> /\ ValidFixedConfig) =>
        /\ ck.chunks # <<>>
        /\ \A i \in 1..Len(ck.chunks) : Len(ck.chunks[i]) <= ck.arg_size

\* C10, amended: for every text with at least one non-whitespace character and
\* overlap < size, fixed-size chunking returns at least one chunk and no chunk
\* longer than size; a text of whitespace only gives the empty sequence.
C10_TextWithContentGivesChunks ==
    (ck.pc = "returned" /\ ValidFixedConfig) =>
        /\ HasContent(ck.input) =>
            /\ ck.chunks # <<>>
            /\ \A i \in 1..Len(ck.chunks) : Len(ck.chunks[i]) <= ck.arg_size
        /\ AllSpace(ck.input) => ck.chunks = <<>>

\* a text cut into overlapping windows, the longest as long as chunk_size
C10_Witness ==
    /\ ck.pc = "returned"
    /\ ValidFixedConfig
    /\ ck.arg_overlap >= 1
    /\ Len(ck.chunks) >= 2
    /\ \E i \in 1..Len(ck.chunks) : Len(ck.chunks[i]) = ck.arg_size

\* C11: for the empty string both the fixed-size and the semantic chunker return
\* the empty sequence, whatever the configuration; the call returns, it does not
\* raise.
C11_EmptyTextGivesNoChunks ==
    /\ (ck.pc # "idle" /\ ck.input = <<>>) => (ck.pc = "returned" /\ ck.chunks = <<>>)
    /\ (sem.pc # "idle" /\ sem.input = <<>>) => (sem.pc = "returned" /\ sem.chunks = <<>>)

\* C11, the semantic chunker has been called with the empty string
C11_Witness == sem.pc = "returned" /\ sem.input = <<>> /\ sem.arg_size >= 1

\* the fixed-size chunker has been called with the empty string and an overlap
\* below the size
C11_WitnessFixed ==
    ck.pc = "returned" /\ ck.input = <<>> /\ ck.arg_size >= 1 /\ ck.arg_overlap < ck.arg_size

\* C14: semantic chunking returns no chunk longer than 2*size, except at most one
\* chunk (the forced flush of an oversized remainder).
C14_SemanticChunkBound ==
    sem.pc = "returned" =>
        LET oversized == {i \in 1..Len(sem.chunks) :
                                Len(sem.chunks[i]) > 2 * sem.target_chunk_size}
        IN  Cardinality(oversized) <= 1

\* C12: fixed-size chunking configured with overlap >= size fails with a
\* configuration error for every non-empty text: the call never returns chunks
\* (and it does not loop for ever).
C12_OverlapAtLeastSizeRaises ==
    (ck.input # <<>> /\ ck.arg_size >= 1 /\ ck.arg_overlap >= ck.arg_size)
        => ck.pc # "returned"

\* the ingestion call has ended, by a return or by an exception
IngestEnded == ing.pc \in {"returned", "raised"}

\* C13: an ingestion request whose fixed-size configuration has overlap >= size
\* is rejected as a validation error before any chunking: it ends with status
\* 400, without chunks, without a metadata row, without vectors and without a
\* document id.
C13_BadOverlapRejected ==
    (/\ IngestEnded
     /\ ing.strategy = "fixed_size"
     /\ ing.chunk_size >= 1
     /\ ing.chunk_overlap >= ing.chunk_size)
        => /\ ing.pc = "raised"
           /\ ing.status = 400
           /\ ing.chunks = <<>>
           /\ ing.document_id = NoDocument
           /\ ~HasRow(documents, ing.document_id)
           /\ ~HasDocument(vectors, ing.document_id)

\* C15: a metadata row exists only for an ingestion that parsed, chunked and
\* embedded its document: either its vectors are stored, or the call is at the
\* store step with its chunks and embeddings in hand; an ingestion that ended
\* with an error has left no row behind.
C15_NoRowWithoutVectors ==
    /\ \A i \in 1..Len(documents) :
            \/ HasDocument(vectors, documents[i].document_id)
            \/ /\ ing.pc = "store"
               /\ ing.document_id = documents[i].document_id
               /\ ing.chunks # <<>>
               /\ Len(ing.embeddings) = Len(ing.chunks)
    /\ ing.pc \in {"chunk", "embed", "create"} => ing.document_id = NoDocument
    /\ ing.pc = "raised" => ~HasRow(documents, ing.document_id)

\* the store step of an ingestion failed after its row had been created
C15_Witness ==
    /\ ing.pc = "raised"
    /\ ing.document_id # NoDocument
    /\ ing.made = 2
    /\ Len(documents) = 1

C17_OrdinalsContiguous ==
    \A e \in 1..Len(vectors) :
        \A j \in 1..Len(vectors[e].chunks) : vectors[e].chunks[j].chunk_index = j - 1

\* the place of a passage in the order of storing
StampOf(text) == CHOOSE n \in 1..(MaxStored + 1) : IntToStr(n) = text

\* C18: search_similar returns at most top_k hits, scores non-increasing, hits of
\* equal score in the order they were stored, and with a document filter only
\* hits of that document.
C18_SearchOrder ==
    ix.op = "search" =>
        /\ Len(ix.hits) <= ix.top_k
        /\ \A i, j \in 1..Len(ix.hits) :
                i < j => /\ ix.hits[i].score >= ix.hits[j].score
                         /\ ix.hits[i].score = ix.hits[j].score
                                => StampOf(ix.hits[i].text) < StampOf(ix.hits[j].text)
        /\ ix.document_id # NoDocument =>
                \A i \in 1..Len(ix.hits) : ix.hits[i].document_id = ix.document_id

\* C19: delete_by_document_id(d) removes every passage of d and returns true
\* exactly when d had passages (so false for an unknown or already deleted id);
\* afterwards a search filtered to d has no hits, and the passages of the other
\* documents are as before.
C19_DeleteReportsPassages ==
    [][ix'.op = "delete" =>
            /\ ix'.deleted <=> PassagesOf(vectors, ix'.document_id) # <<>>
            /\ PassagesOf(vectors', ix'.document_id) = <<>>
            /\ search_similar(vectors', embed_text(<<"q">>), MaxStored, ix'.document_id) = <<>>
            /\ \A d \in DocIds \ {ix'.document_id} :
                    PassagesOf(vectors', d) = PassagesOf(vectors, d)]_vars

\* the stored entries of session s, as lrange hands them to the decoder
RawLog(d, s) == lrange(d, _get_session_key(s), 0, -1)

\* the step leaves the history, the existence and the message count of session s
\* as they were (entries that are the same decode to the same history)
SessionKept(s) ==
    /\ \/ RawLog(data', s) = RawLog(data, s)
       \/ get_session_history(data', s) = get_session_history(data, s)
    /\ session_exists(data', s) <=> session_exists(data, s)
    /\ get_message_count(data', s) = get_message_count(data, s)

\* the step is clear_session on session s
Clears(s) == resp'.kind = "delete" /\ resp'.session_id = s

\* C20: sessions are isolated: a step that is not an append (add_message in a chat
\* turn) or a clear_session on session b leaves the history, the existence and
\* the message count of b unchanged, whatever it does to other sessions.
C20_SessionsIsolated ==
    [][\A b \in SessionIds : (AppendsTo(b) \/ Clears(b)) \/ SessionKept(b)]_vars

\* a session has just been cleared while another one holds messages
C20_Witness ==
    /\ resp.kind = "delete"
    /\ resp.body = "success"
    /\ \E b \in SessionIds \ {resp.session_id} : get_message_count(data, b) >= 2

\* C21: an ingestion that fails at the vector store is answered as a server
\* error (status 500), not as a validation error: the store call is the only
\* step that can fail once the document id has been assigned.
C21_StoreFailureIsServerError ==
    (ing.pc = "raised" /\ ing.document_id # NoDocument) => ing.status = 500

\* chat turns that overlap at the awaits of CustomRAGService.chat; no session is
\* cleared
TurnsNext ==
    \/ \E t \in Turns, r \in ValidRequests : ChatAccept(t, r.session_id, r.user_message)
    \/ \E t \in Turns : ChatRetrieve(t)
    \/ \E t \in Turns, w \in {"embed_text", "search_similar"}, c \in CollaboratorErrors :
            ChatRetrieveFails(t, w, c)
    \/ \E t \in Turns : ChatGenerate(t)
    \/ \E t \in Turns, c \in CollaboratorErrors : ChatGenerateFails(t, c)
    \/ \E t \in Turns : ChatRecord(t)
    \/ \E c \in ChunkLists : StoreVectors("d1", c)

SpecTurns == Init /\ [][TurnsNext]_vars

\* the places of the messages of one role in a decoded log, in log order
RolePositions(h, role) ==
    SelectSeq([i \in 1..Len(h) |-> i], LAMBDA i : h[i].role = role)

\* C22: in every interleaving of chat turns, on one session or on several, the
\* user messages of a session stand in its log in the order the turns were
\* accepted, there is one assistant reply per completed turn, and the reply of
\* each completed turn stands after the user message of that turn.
C22_UserBeforeOwnReply ==
    \A s \in SessionIds :
        LET on == TurnsOn(s)
            h == get_session_history(data, s)
            users == RolePositions(h, RoleUser)
            replies == RolePositions(h, RoleAssistant)
        IN  /\ Len(users) = Len(on)
            /\ Len(replies) = Len(SelectSeq(on, Succeeded))
            /\ \A k \in 1..Len(on) :
                /\ h[users[k]] = UserEntry(turn[on[k]].user_message)
                /\ Succeeded(on[k]) =>
                    \E j \in 1..Len(replies) :
                        /\ replies[j] > users[k]
                        /\ h[replies[j]] = AssistantEntry(turn[on[k]].response)

\* two turns on one session overlapped: both user messages were stored before
\* either reply, and both turns completed
C22_Witness ==
    \E s \in SessionIds :
        LET h == get_session_history(data, s)
        IN  /\ Len(TurnsOn(s)) = 2
            /\ \A k \in 1..2 : Succeeded(TurnsOn(s)[k])
            /\ Len(h) = 4
            /\ h[1].role = RoleUser /\ h[2].role = RoleUser
            /\ h[3].role = RoleAssistant /\ h[4].role = RoleAssistant

\* C23: in every chat turn the history read for the prompt (the last 10
\* messages) ends with the user message of that turn, whatever other turns and
\* clears of the same session ran between the append and the read; the entries
\* _build_prompt keeps (all but the last) are then the messages before it.
C23_HistoryEndsWithOwnMessage ==
    \A t \in Turns :
        turn[t].pc = "record" =>
            LET h == turn[t].conversation_history
            IN  /\ h # <<>>
                /\ h[Len(h)] = UserEntry(turn[t].user_message)

\* the chunks of the windows of length size that start at start, start + size -
\* overlap, ... below the length of the text, each stripped, the empty ones left
\* out
RECURSIVE WindowsFrom(_, _, _, _)
WindowsFrom(text, start, size, overlap) ==
    IF start >= Len(text) THEN <<>>
    ELSE LET chunk == Strip(PySlice(text, start, start + size))
         IN  (IF chunk # <<>> THEN << chunk >> ELSE <<>>)
                \o WindowsFrom(text, start + size - overlap, size, overlap)

\* C24: for every valid fixed-size configuration, overlap = 0 included, the
\* chunker works with the size and the overlap of the caller: the chunks are the
\* windows of length size at 0, size - overlap, 2 * (size - overlap), ... up to
\* the length of the normalized text; with overlap 0 they are consecutive and
\* disjoint.
C24_CallerSizeAndOverlapUsed ==
    (ck.pc = "returned" /\ ck.input # <<>> /\ ValidFixedConfig) =>
        /\ ck.chunk_size = ck.arg_size
        /\ ck.chunk_overlap = ck.arg_overlap
        /\ ck.chunks = WindowsFrom(ck.text, 0, ck.arg_size, ck.arg_overlap)

\* the call has returned and its last chunk is the remainder chunk_text adds
\* after the loops
EndsWithRemainder == sem.pc = "returned" /\ Strip(sem.current_chunk) # <<>>

\* C25 as stated: every chunk semantic chunking returns, the one flushed at the
\* end of the text included, has a length of at least size / 2 (integer
\* division), apart from the forced flushes.
C25_EveryChunkReachesMin ==
    sem.pc = "returned" =>
        \A i \in 1..Len(sem.chunks) :
            i \in sem.forced \/ Len(sem.chunks[i]) >= sem.target_chunk_size \div 2

\* C25, amended: every chunk emitted before the end of the text has a length of
\* at least size / 2; the chunk flushed at the end of the text is any non-empty
\* remainder, however short.
C25_ChunksBeforeTheEndReachMin ==
    /\ \A i \in 1..Len(sem.chunks) :
            \/ EndsWithRemainder /\ i = Len(sem.chunks)
            \/ Len(sem.chunks[i]) >= sem.target_chunk_size \div 2
    /\ EndsWithRemainder => sem.chunks[Len(sem.chunks)] # <<>>

\* a chunk of at least size / 2 characters, then a remainder shorter than that
C25_Witness ==
    /\ EndsWithRemainder
    /\ Len(sem.chunks) >= 2
    /\ sem.target_chunk_size \div 2 >= 2
    /\ Len(sem.chunks[1]) >= sem.target_chunk_size \div 2
    /\ Len(sem.chunks[Len(sem.chunks)]) < sem.target_chunk_size \div 2

\* needle occurs in hay as a run of consecutive characters
IsInfix(needle, hay) ==
    \E i \in 0..(Len(hay) - Len(needle)) : SubSeq(hay, i + 1, i + Len(needle)) = needle

\* C26: semantic chunking splits the text at its blank lines: the k non-empty
\* paragraphs of the caller's text are handed to sentence splitting as k
\* paragraphs, and every chunk returned lies within one of them.
C26_ParagraphsKeptApart ==
    (sem.pc # "idle" /\ sem.input # <<>>) =>
        LET paragraphs == _split_paragraphs(sem.input)
        IN  /\ Len(_split_paragraphs(sem.text)) = Len(paragraphs)
            /\ sem.pc = "returned" =>
                \A i \in 1..Len(sem.chunks) :
                    \E p \in 1..Len(paragraphs) :
                        IsInfix(_clean_text(sem.chunks[i]), _clean_text(paragraphs[p]))

\* the lines of the conversation-history section of the prompt built from the
\* history h: its header and one line per earlier message
HistorySection(h) ==
    LET earlier == PySlice(h, 0, -1)
    IN  << Strip(PromptHistoryHeader) >>
            \o [i \in 1..Len(earlier) |->
                    Capitalize(earlier[i].role) \o <<":", " ">> \o earlier[i].content]

\* C27: when retrieval returned at least one hit, the response holds the text of
\* the retrieved passages (they are far shorter than the cut at 1000 characters)
\* and no line of the conversation-history section of the prompt.
C27_ResponseEchoesContext ==
    \A t \in Turns :
        (turn[t].pc = "record" /\ turn[t].relevant_chunks # <<>>) =>
            /\ \A i \in 1..Len(turn[t].relevant_chunks) :
                    IsInfix(turn[t].relevant_chunks[i].text, turn[t].response)
            /\ \A k \in 1..Len(HistorySection(turn[t].conversation_history)) :
                    ~IsInfix(HistorySection(turn[t].conversation_history)[k],
                             turn[t].response)

(***************************************************************************)
(* DocumentIngestionService.delete_document, among the ingestion calls.    *)
(***************************************************************************)
\* qdrant_manager.delete_by_document_id(document_id)
DeleteCall(document_id) ==
    /\ ing.pc \in {"idle", "returned", "raised"}
    /\ ing.calls < MaxIngests
    /\ vectors' = delete_by_document_id_vectors(vectors, document_id)
    /\ ing' = [IdleIngest EXCEPT !.pc = "delete_row", !.document_id = document_id,
                                 !.calls = ing.calls + 1, !.made = ing.made]
    /\ UNCHANGED <<data, turn, resp, ck, sem, documents, ix>>

\* return self.document_repo.delete_document(document_id)
DeleteRow ==
    /\ ing.pc = "delete_row"
    /\ documents' = delete_document_rows(documents, ing.document_id)
    /\ ing' = [ing EXCEPT !.pc = "returned"]
    /\ UNCHANGED <<data, vectors, turn, resp, ck, sem, ix>>

\* the database fails (the query or the commit raises): delete_document has no
\* handler, the exception leaves it
DeleteRowFails(cls) ==
    /\ ing.pc = "delete_row"
    /\ ing' = [ing EXCEPT !.pc = "raised", !.error = cls]
    /\ UNCHANGED <<data, vectors, turn, resp, ck, sem, documents, ix>>

\* ingest_document and delete_document calls, one at a time
DocumentsNext ==
    \/ IngestNext
    \/ \E d \in DocIds : DeleteCall(d)
    \/ DeleteRow
    \/ \E c \in CollaboratorErrors : DeleteRowFails(c)

SpecDocuments == Init /\ [][DocumentsNext]_vars

\* C28: whenever no ingest_document or delete_document call is in progress, the
\* document ids that have a metadata row are the document ids that have passages
\* in the index, and total_chunks of each row is the number of passages stored
\* for its id, whatever calls were made before, the failed ones included.
C28_RowsMatchIndex ==
    ing.pc \in {"idle", "returned", "raised"} =>
        /\ {documents[i].document_id : i \in 1..Len(documents)}
                = {vectors[i].document_id : i \in 1..Len(vectors)}
        /\ \A i \in 1..Len(documents) :
                documents[i].total_chunks
                    = Len(PassagesOf(vectors, documents[i].document_id))

\* C29: in every reachable state of the conversation store, under any
\* interleaving of chat turns and clear_session calls, every session log starts
\* with a user message and every assistant message stands right after a user
\* message: no reply is held without the user message it answers.
C29_RepliesFollowUserMessages ==
    \A s \in SessionIds :
        LET h == get_session_history(data, s)
        IN  \A i \in 1..Len(h) :
                h[i].role = RoleAssistant => (i > 1 /\ h[i - 1].role = RoleUser)

\* the least n with n * d >= len, for d >= 1
CeilDiv(len, d) == (len + d - 1) \div d

\* C30: fixed-size chunking with overlap < size loses no text: every character of
\* the normalized text that is not whitespace lies in the window of a chunk
\* returned, the chunks come in increasing order of their starts, and there are
\* at most ceil(len / (size - overlap)) of them.
C30_NoTextLost ==
    (ck.pc = "returned" /\ ValidFixedConfig) =>
        /\ Len(ck.starts) = Len(ck.chunks)
        /\ \A p \in 1..Len(ck.text) :
                IsSpace(ck.text[p]) \/
                    \E i \in 1..Len(ck.starts) :
                        ck.starts[i] < p /\ p <= ck.starts[i] + ck.arg_size
        /\ \A i \in 1..(Len(ck.starts) - 1) : ck.starts[i] < ck.starts[i + 1]
        /\ Len(ck.chunks) <= CeilDiv(Len(ck.text), ck.arg_size - ck.arg_overlap)
====
